---- MODULE Spec2Model ----
(***************************************************************************)
(* Client-side authentication session manager of pdfchat.ai                *)
(* (frontend/src/contexts/AuthContext.tsx, hooks/useStorage).              *)
(*                                                                         *)
(* The AuthProvider component is modelled as a state machine.  React state *)
(* (token, user, isLoading, isCheckingAuth) and refs are variables.  Every *)
(* callback of the component closes over the values of the render in which *)
(* it was created, so an asynchronous flow keeps the token it captured     *)
(* when it started (capTok, ictok, hdr below) while the variables move on. *)
(* A state change marks the component dirty; the Render action commits the *)
(* render and runs the three effects in source order before any further    *)
(* event is handled.  A step is one run of JavaScript between two          *)
(* suspension points (await of a network call or of a timer).              *)
(***************************************************************************)
EXTENDS Integers, Sequences, FiniteSets, Bags, TLC

VARIABLES
  now,              \* Date.now(), milliseconds
  ticks,            \* number of explicit clock advances so far (bounded)
  cookie,           \* document.cookie entry auth_token (raw value)
  ls,               \* localStorage entry auth_token (raw value)
  token,            \* useStorage state storedValue
  user,             \* useState user
  isLoading,        \* useState isLoading
  isCheckingAuth,   \* useState isCheckingAuth
  authHeader,       \* axios.defaults.headers.common['Authorization']
  refreshTimerRef,  \* refreshTimerRef.current
  timers,           \* live window timers armed by setupRefreshTimer (a bag)
  fetchingUserRef,  \* fetchingUserRef.current
  lastAuthCheckRef, \* lastAuthCheckRef.current
  initialLoadRef,   \* initialLoadRef.current
  onAuthPage,       \* window.location.pathname is /login or /register
  icTok,            \* token captured by the installed axios interceptors
  dirty,            \* a state change awaits its render and effects
  chk,              \* the checkAuth call suspended at await fetchUserProfile
  auth,             \* the login / register call in progress
  reqs,             \* axios requests in flight (or suspended in the interceptor)
  hist              \* observations of completed operations

vars == <<now, ticks, cookie, ls, token, user, isLoading, isCheckingAuth,
          authHeader, refreshTimerRef, timers, fetchingUserRef,
          lastAuthCheckRef, initialLoadRef, onAuthPage, icTok, dirty, chk,
          auth, reqs, hist>>

(***************************************************************************)
(* Bounds of the model                                                     *)
(***************************************************************************)
MaxSent == 4       \* axios requests sent (replays by the interceptor apart)
MaxTicks == 2      \* explicit clock advances
TickMs == 250      \* length of one explicit clock advance
MaxOps == 2        \* calls from outside: login, register, logout, requests
StartTime == 1000  \* Date.now() when the component mounts

(***************************************************************************)
(* Program constants                                                       *)
(***************************************************************************)
TOKEN_EXPIRY_DAYS == 7
REFRESH_THRESHOLD_MS == 24 * 60 * 60 * 1000
DEBOUNCE_TIME == 500
maxAttempts == 2
MAX_RETRIES == 2
SET_TOKEN_DELAY == 300
PROPAGATION_DELAY == 500
RETRY_DELAY == 1000

(***************************************************************************)
(* Values                                                                  *)
(***************************************************************************)
None == "none"
\* "bad" is a string jwt_decode cannot decode; the others are well-formed JWTs
WellFormed == {"tX", "tE", "tA", "tB", "tC"}
Tokens == WellFormed \cup {"bad"}
\* exp claim of a well-formed token, seconds
Exp(t) == CASE t = "tX" -> 0
            [] t = "tE" -> 1
            [] t = "tA" -> 2
            [] t = "tB" -> 2 * 86400
            [] t = "tC" -> 3 * 86400
            [] OTHER -> 0
Users == {"alice"}
NoUser == <<>>
\* the profile GET /users/me returns, and the minimal profile login synthesizes
Profile(u) == <<1, u>>
MinimalProfile(u) == <<0, u>>
HttpErrorStatuses == {400, 401, 500}

Max(a, b) == IF a >= b THEN a ELSE b

(***************************************************************************)
(* JSON and cookie encoding of a stored value.  A raw entry is <<>> when   *)
(* absent, <<"json", v>> for the text JSON.stringify(v), and <<"garbage">> *)
(* for text JSON.parse rejects.                                            *)
(***************************************************************************)
NoEntry == <<>>
Garbage == <<"garbage">>
JSONstringify(v) == <<"json", v>>
JSONparses(raw) == Len(raw) = 2 /\ raw[1] = "json"
JSONparse(raw) == raw[2]
RawValues == {NoEntry, Garbage} \cup {JSONstringify(t) : t \in Tokens}

(***************************************************************************)
(* CookieUtils (hooks/useStorage): the cookie holds encodeURIComponent of  *)
(* the JSON text; getCookie decodes it.                                    *)
(***************************************************************************)
encodeURIComponent(raw) == <<"uri">> \o raw
decodeURIComponent(c) == Tail(c)
setCookie(value) == encodeURIComponent(value)
getCookie(c) == IF c = NoEntry THEN NoEntry ELSE decodeURIComponent(c)

(***************************************************************************)
(* useStorage.getStoredValue: the cookie first; localStorage only when the *)
(* cookie is absent; a JSON.parse exception yields initialValue (null).    *)
(***************************************************************************)
getStoredValue(c, l) ==
  IF getCookie(c) # NoEntry
  THEN IF JSONparses(getCookie(c)) THEN JSONparse(getCookie(c)) ELSE None
  ELSE IF l # NoEntry
       THEN IF JSONparses(l) THEN JSONparse(l) ELSE None
       ELSE None

(***************************************************************************)
(* The mutable state as one record, so that a handler is the composition   *)
(* of the routines it calls.  over records that a step needed more         *)
(* requests than MaxSent allows; such a step is not taken.                 *)
(***************************************************************************)
St == [now |-> now, ticks |-> ticks, cookie |-> cookie, ls |-> ls,
       token |-> token, user |-> user, isLoading |-> isLoading,
       isCheckingAuth |-> isCheckingAuth, authHeader |-> authHeader,
       refreshTimerRef |-> refreshTimerRef, timers |-> timers,
       fetchingUserRef |-> fetchingUserRef,
       lastAuthCheckRef |-> lastAuthCheckRef,
       initialLoadRef |-> initialLoadRef, onAuthPage |-> onAuthPage,
       icTok |-> icTok, dirty |-> dirty, chk |-> chk, auth |-> auth,
       reqs |-> reqs, hist |-> hist, over |-> FALSE]

\* React re-renders when a state value changed (setUser of a fresh object
\* always counts and sets dirty itself)
Commit(s) ==
  /\ ~s.over
  /\ now' = s.now
  /\ ticks' = s.ticks
  /\ cookie' = s.cookie
  /\ ls' = s.ls
  /\ token' = s.token
  /\ user' = s.user
  /\ isLoading' = s.isLoading
  /\ isCheckingAuth' = s.isCheckingAuth
  /\ authHeader' = s.authHeader
  /\ refreshTimerRef' = s.refreshTimerRef
  /\ timers' = s.timers
  /\ fetchingUserRef' = s.fetchingUserRef
  /\ lastAuthCheckRef' = s.lastAuthCheckRef
  /\ initialLoadRef' = s.initialLoadRef
  /\ onAuthPage' = s.onAuthPage
  /\ icTok' = s.icTok
  /\ dirty' = (s.dirty \/ s.token # token \/ s.isLoading # isLoading
                       \/ s.isCheckingAuth # isCheckingAuth)
  /\ chk' = s.chk
  /\ auth' = s.auth
  /\ reqs' = s.reqs
  /\ hist' = s.hist

(***************************************************************************)
(* useStorage.setValue / removeValue and the React setters                 *)
(***************************************************************************)
\* variant for C21: the cookie gets the value without JSON.stringify
setValue_UnquotedCookie(s, v) ==
  [s EXCEPT !.token = v,
            !.ls = JSONstringify(v),
            !.cookie = setCookie(<<v>>)]

\* variant for C22: useCookies off, the cookie is left as it was
setValue_NoCookie(s, v) ==
  [s EXCEPT !.token = v, !.ls = JSONstringify(v)]

setValue(s, v) ==
  [s EXCEPT !.token = v,
            !.ls = JSONstringify(v),
            !.cookie = setCookie(JSONstringify(v))]

\* variant for C20: the storage entries go, the state value stays
removeValue_StorageOnly(s) ==
  [s EXCEPT !.ls = NoEntry, !.cookie = NoEntry]

removeValue(s) ==
  [s EXCEPT !.token = None, !.ls = NoEntry, !.cookie = NoEntry]

setUser(s, u) ==
  [s EXCEPT !.user = u, !.dirty = @ \/ u # NoUser \/ s.user # NoUser]

(***************************************************************************)
(* clearAllAuthData: removeToken, setUser(null), delete the default        *)
(* Authorization header, expire every cookie, localStorage.removeItem.     *)
(***************************************************************************)
\* variant for C6: the teardown forgets setUser(null)
clearAllAuthData_KeepingUser(s) ==
  [removeValue(s) EXCEPT !.authHeader = None]

clearAllAuthData(s) ==
  LET s1 == removeValue(s)
      s2 == setUser(s1, NoUser)
      s3 == [s2 EXCEPT !.authHeader = None]
      s4 == [s3 EXCEPT !.cookie = NoEntry]
      s5 == [s4 EXCEPT !.ls = NoEntry]
  IN s5

(***************************************************************************)
(* jwt_decode and the expiry tests of the source                           *)
(***************************************************************************)
decodes(t) == t \in WellFormed
\* checkAuth: decodedToken.exp < Date.now() / 1000
expiredAt(t, time) == Exp(t) * 1000 < time

(***************************************************************************)
(* Results of an axios call as the awaiting code sees them.  code "net"    *)
(* stands for ERR_NETWORK / ECONNABORTED / ERR_CANCELED, code "http" for   *)
(* the code of an error status; a plain Error has no code and no response. *)
(* raw is the status the backend sent (0: none), kept for observation.     *)
(***************************************************************************)
Sub(t) == "alice"
ResOk(tok, u) == [ok |-> TRUE, tok |-> tok, user |-> u, code |-> "",
                  hasResp |-> TRUE, status |-> 200, authCleared |-> FALSE,
                  raw |-> 200]
ErrNet == [ok |-> FALSE, tok |-> None, user |-> NoUser, code |-> "net",
           hasResp |-> FALSE, status |-> 0, authCleared |-> FALSE, raw |-> 0]
ErrHttp(st) == [ok |-> FALSE, tok |-> None, user |-> NoUser, code |-> "http",
                hasResp |-> TRUE, status |-> st, authCleared |-> FALSE,
                raw |-> st]
PlainError == [ok |-> FALSE, tok |-> None, user |-> NoUser, code |-> "",
               hasResp |-> FALSE, status |-> 0, authCleared |-> FALSE,
               raw |-> 0]

(***************************************************************************)
(* The backend, an external collaborator: any of these answers may come.   *)
(* It accepts only a well-formed token that has not expired, may reject    *)
(* any token with 401, and may be unreachable.                             *)
(***************************************************************************)
Accepts(hdr, time) == hdr \in WellFormed /\ Exp(hdr) * 1000 > time
\* login and register mint tA or tB; a refresh mints the next token
Minted == {"tA", "tB"}
Succ(t) == IF t = "tA" THEN "tB" ELSE "tC"
Mintable(time) == {t \in WellFormed : Exp(t) * 1000 > time}
Answers(r, time) ==
  {ErrNet} \cup {ErrHttp(st) : st \in HttpErrorStatuses} \cup
  CASE r.kind = "me" ->
         IF Accepts(r.hdr, time)
         THEN {ResOk(None, Profile(Sub(r.hdr)))} ELSE {}
    [] r.kind = "refresh" ->
         IF Accepts(r.hdr, time)
         THEN {ResOk(t, NoUser) : t \in Mintable(time) \cap {Succ(r.hdr)}}
         ELSE {}
    [] r.kind \in {"login", "register"} ->
         {ResOk(t, NoUser) : t \in Mintable(time) \cap Minted}
    [] OTHER ->
         IF Accepts(r.hdr, time) THEN {ResOk(None, NoUser)} ELSE {}

(***************************************************************************)
(* Requests.  owner is the code awaiting the promise: "chk" (checkAuth),   *)
(* "auth" (login / register), "sched" (refreshToken called by the          *)
(* scheduler, result ignored), "api" (a page component), or "ic": the      *)
(* refreshToken awaited by the response interceptor of request owner.r.    *)
(* st is "flight" while the backend has the request and "refreshing" while *)
(* its 401 waits in the interceptor for refreshToken; retry is the _retry  *)
(* flag; replays counts its resubmissions and lo records that logout ran   *)
(* while it was pending (both for observation).                            *)
(***************************************************************************)
Owner(t, r) == [t |-> t, r |-> r]
\* requestInterceptor: the installed closure's token, when it has one,
\* replaces the Authorization header of the outgoing request
requestInterceptor(s, hdr) == IF s.icTok # None THEN s.icTok ELSE hdr

\* axios(config): the explicit header or else the default header, then the
\* request interceptor; the response is handled by the interceptor
\* installed now, whose closure holds s.icTok
Dispatch(s, kind, owner, explicit) ==
  IF s.hist.sent >= MaxSent
  THEN [s EXCEPT !.over = TRUE]
  ELSE LET hdr0 == IF explicit # None THEN explicit ELSE s.authHeader
           r == [id |-> s.hist.sent + 1, kind |-> kind, owner |-> owner,
                 hdr |-> requestInterceptor(s, hdr0), retry |-> FALSE,
                 ictok |-> s.icTok, st |-> "flight", replays |-> 0,
                 lo |-> FALSE]
       IN [s EXCEPT !.reqs = @ \cup {r}, !.hist.sent = @ + 1]

(***************************************************************************)
(* refreshToken, in the closure of a render whose token was tok.           *)
(* refreshTokenStart: returns false at once without a token, else posts.   *)
(* refreshTokenResume: the code after the await.                           *)
(***************************************************************************)
refreshTokenStarts(tok) == tok # None

refreshTokenStart(s, tok, owner) ==
  Dispatch(s, "refresh", owner, tok)

\* variant for C28: a failed refresh removes the token
refreshTokenResume_ClearsOnFailure(s, res) ==
  IF res.ok
  THEN [setValue(s, res.tok) EXCEPT !.authHeader = res.tok]
  ELSE removeValue(s)

refreshTokenResume(s, res) ==
  IF res.ok
  THEN [setValue(s, res.tok) EXCEPT !.authHeader = res.tok]
  ELSE s

(***************************************************************************)
(* fetchUserProfile, in the closure of a render whose token was tok.       *)
(***************************************************************************)
\* variant for C3: the guard without the in-flight test
fetchUserProfileStarts_NoInFlightTest(s, tok) == tok # None

fetchUserProfileStarts(s, tok) == ~(tok = None \/ s.fetchingUserRef)

fetchUserProfileStart(s, tok, owner) ==
  Dispatch([s EXCEPT !.fetchingUserRef = TRUE], "me", owner, tok)

\* variant for C34: the catch path leaves fetchingUserRef set
fetchUserProfileResume_FlagStuckOnError(s, res) ==
  [s EXCEPT !.fetchingUserRef = ~res.ok,
            !.hist.inflight = IF s.hist.late = "null" /\ @ = "none"
                              THEN (IF res.ok THEN "profile" ELSE "error")
                              ELSE @,
            !.hist.meHttp = @ \/ res.raw # 0,
            !.hist.meFailed = @ \/ (~res.ok /\ s.auth.pc # "idle")]

fetchUserProfileResume(s, res) ==
  [s EXCEPT !.fetchingUserRef = FALSE,
            !.hist.inflight = IF s.hist.late = "null" /\ @ = "none"
                              THEN (IF res.ok THEN "profile" ELSE "error")
                              ELSE @,
            !.hist.meHttp = @ \/ res.raw # 0,
            !.hist.meFailed = @ \/ (~res.ok /\ s.auth.pc # "idle")]

\* fetchUserProfile returns null: no token, or a fetch is in flight
fetchUserProfileNull(s, tok) ==
  IF tok # None /\ s.fetchingUserRef
  THEN [s EXCEPT !.hist.late = "null"]
  ELSE s

(***************************************************************************)
(* checkAuth, called by the auth-check effect with the values of its       *)
(* render: tok, usr, checking.  It suspends only at await fetchUserProfile.*)
(***************************************************************************)
checkAuthFinish(s) ==
  [s EXCEPT !.isLoading = FALSE, !.isCheckingAuth = FALSE, !.chk = "idle"]

\* variant for C23: the profile the fetch returned is not stored
checkAuthResume_DropsProfile(s, res) ==
  checkAuthFinish(fetchUserProfileResume(s, res))

\* variant for C8: the debounce test never drops an invocation
debounced_Never(s) == FALSE

\* the debounce test of checkAuth
debounced(s) == s.now - s.lastAuthCheckRef < DEBOUNCE_TIME

\* variant for C32: the profile is fetched whether or not one is held
checkAuthBody_AlwaysFetches(s, tok, usr) ==
  IF tok # None
  THEN IF ~decodes(tok) \/ expiredAt(tok, s.now)
       THEN checkAuthFinish(clearAllAuthData(s))
       ELSE LET s2 == [s EXCEPT !.authHeader = tok]
            IN IF fetchUserProfileStarts(s2, tok)
               THEN [fetchUserProfileStart(s2, tok, Owner("chk", 0))
                       EXCEPT !.chk = "fetch"]
               ELSE checkAuthFinish(clearAllAuthData(
                                      fetchUserProfileNull(s2, tok)))
  ELSE checkAuthFinish(setUser(s, NoUser))

checkAuthBody(s, tok, usr) ==
  IF tok # None
  THEN IF ~decodes(tok) \/ expiredAt(tok, s.now)
       THEN checkAuthFinish(clearAllAuthData(s))
       ELSE LET s2 == [s EXCEPT !.authHeader = tok]
            IN IF usr = NoUser
               THEN IF fetchUserProfileStarts(s2, tok)
                    THEN [fetchUserProfileStart(s2, tok, Owner("chk", 0))
                            EXCEPT !.chk = "fetch"]
                    ELSE checkAuthFinish(clearAllAuthData(
                                           fetchUserProfileNull(s2, tok)))
               ELSE checkAuthFinish(s2)
  ELSE checkAuthFinish(setUser(s, NoUser))

checkAuth(s, tok, usr, checking) ==
  IF checking THEN s
  ELSE IF debounced(s) THEN [s EXCEPT !.hist.dropped = TRUE]
  ELSE LET s1 == [s EXCEPT !.lastAuthCheckRef = s.now,
                           !.isCheckingAuth = TRUE,
                           !.isLoading = TRUE,
                           !.hist.tooSoon =
                              @ \/ (s.hist.lastCheck >= 0 /\
                                    s.now - s.hist.lastCheck < DEBOUNCE_TIME),
                           !.hist.lastCheck = s.now,
                           !.hist.misjudged =
                              @ \/ (tok # None /\ decodes(tok) /\
                                    expiredAt(tok, s.now)
                                      # (s.now >= Exp(tok) * 1000))]
       IN checkAuthBody(s1, tok, usr)

\* variant for C33: a failed profile fetch ends the check and clears nothing
checkAuthResume_KeepsSession(s, res) ==
  LET s1 == fetchUserProfileResume(s, res)
  IN IF res.ok
     THEN checkAuthFinish(setUser(s1, res.user))
     ELSE checkAuthFinish(s1)

\* after await fetchUserProfile(): the profile, or the error it rethrew
checkAuthResume(s, res) ==
  LET s1 == fetchUserProfileResume(s, res)
  IN IF res.ok
     THEN checkAuthFinish(setUser(s1, res.user))
     ELSE checkAuthFinish(clearAllAuthData(s1))

(***************************************************************************)
(* setAuthToken(newToken) with a token                                     *)
(***************************************************************************)
setAuthToken(s, newToken) ==
  [setValue(s, newToken) EXCEPT !.authHeader = newToken]

(***************************************************************************)
(* login and register.  auth.pc is the await the call is suspended at:     *)
(* "post" (the credential call), "backoff" (1 s before the second login    *)
(* attempt), "settle" (the 300 ms of setAuthToken and the 500 ms after     *)
(* it), "fetch1", "retryWait" (1 s), "fetch2".  capTok is the token of the *)
(* render that created the function: the one its fetchUserProfile sees.    *)
(***************************************************************************)
AuthIdle == [pc |-> "idle", kind |-> "", username |-> "", capTok |-> None,
             attempts |-> 0, wake |-> 0, tokenSet |-> FALSE]

\* finally { setIsLoading(false) } and the value or error handed back
\* (the outer catch rethrows, adding tokenSet to the error)
authEnd(s, result) ==
  [s EXCEPT !.isLoading = FALSE,
                 !.hist.result = result,
                 !.hist.tokenSet = s.auth.tokenSet,
                 !.auth = AuthIdle]

\* err.response.data.detail: the backend's message, or the one the response
\* interceptor put in its place
ErrorDetail(e) ==
  IF e.authCleared THEN "Authentication failed. Please log in again."
  ELSE IF e.code = "net" THEN "Request timed out. Server may be overloaded."
  ELSE IF e.code = "http" THEN "backend detail"
  ELSE ""

\* what handleSubmit of the Login page shows for the error login throws:
\* the outer catch of login replaces an error without a response (or a
\* timeout) by its own Error, whose message is shown; otherwise the detail
LoginPageMessage(e) ==
  IF e.code = "net" \/ ~e.hasResp
  THEN "Login request timed out. Please try again."
  ELSE ErrorDetail(e)

\* login / register throw e: outer catch, finally, and the page's catch
authThrow(s, e) ==
  [authEnd(s, "thrown") EXCEPT !.hist.shown = LoginPageMessage(e),
                               !.hist.cause = e.raw]

\* the catch around the profile fetches (login 529-567, register 669-707)
profileFailed(s, e) ==
  IF e.code = "net" \/ ~e.hasResp
  THEN [authEnd(setUser(s, MinimalProfile(s.auth.username)), "partial")
          EXCEPT !.hist.cause = e.raw]
  ELSE IF e.status = 401
       THEN authThrow(clearAllAuthData(s), [PlainError EXCEPT !.raw = e.raw])
       ELSE authThrow(s, [PlainError EXCEPT !.raw = e.raw])

authRetryWait(s) ==
  [s EXCEPT !.auth.pc = "retryWait", !.auth.wake = s.now + RETRY_DELAY]

\* one call of fetchUserProfile by login / register; null makes them throw
\* a plain Error: the first time into the retry, the second time into the
\* catch around the profile fetches
authFetch(s, pcFetch) ==
  IF fetchUserProfileStarts(s, s.auth.capTok)
  THEN [fetchUserProfileStart(s, s.auth.capTok, Owner("auth", 0))
          EXCEPT !.auth.pc = pcFetch]
  ELSE LET s1 == fetchUserProfileNull(s, s.auth.capTok)
       IN IF pcFetch = "fetch1"
          THEN authRetryWait(s1)
          ELSE profileFailed(s1, PlainError)

\* the attempt loop of login: any error before the last attempt is retried
loginPostFailed(s, e) ==
  IF s.auth.kind = "login" /\ s.auth.attempts < maxAttempts
  THEN [s EXCEPT !.auth.pc = "backoff", !.auth.wake = s.now + RETRY_DELAY,
                 !.hist.retryAfter = e.raw]
  ELSE authThrow(s, e)

authPost(s) ==
  LET s1 == [s EXCEPT !.auth.attempts = @ + 1, !.auth.pc = "post",
                      !.hist.posts = @ + 1]
  IN Dispatch(s1, s.auth.kind, Owner("auth", 0), None)

\* the code after an await of an axios call
authResume(s, res) ==
  CASE s.auth.pc = "post" ->
         IF res.ok
         THEN LET s1 == setAuthToken(s, res.tok)
              IN [s1 EXCEPT !.auth.pc = "settle",
                            !.auth.wake = s.now + SET_TOKEN_DELAY
                                                + PROPAGATION_DELAY,
                            !.hist.newTok = res.tok]
         ELSE loginPostFailed(s, res)
    [] s.auth.pc = "fetch1" ->
         LET s1 == fetchUserProfileResume(s, res)
         IN IF res.ok
            THEN authEnd(setUser(s1, res.user), "full")
            ELSE authRetryWait(s1)
    [] s.auth.pc = "fetch2" ->
         LET s1 == fetchUserProfileResume(s, res)
         IN IF res.ok
            THEN authEnd(setUser(s1, res.user), "full")
            ELSE profileFailed(s1, res)
    [] OTHER -> s

\* the code after an await of a timer
authWake(s) ==
  LET s0 == [s EXCEPT !.now = Max(s.now, s.auth.wake)]
  IN CASE s.auth.pc = "backoff" -> authPost(s0)
       [] s.auth.pc = "settle" ->
            authFetch([s0 EXCEPT !.auth.tokenSet = TRUE], "fetch1")
       [] s.auth.pc = "retryWait" ->
            authFetch(s0, "fetch2")
       [] OTHER -> s0

\* a page component's call through the global axios client (Chat.tsx)
apiResume(s, res) ==
  [s EXCEPT !.hist.apiRes = IF res.ok THEN "ok"
                            ELSE IF res.authCleared THEN "authCleared"
                            ELSE IF res.status = 401 THEN "status401"
                            ELSE "error"]

(***************************************************************************)
(* services/api.ts: the shared api instance (axios.create), used by the    *)
(* pages through documentService.  It has its own interceptors and none of *)
(* the global client's; its headers are a copy made at creation, so the    *)
(* default Authorization header set later is not seen by it.               *)
(***************************************************************************)
\* a request settles
Drop(s, r) == [s EXCEPT !.reqs = @ \ {r}]

\* the request interceptor: the token of localStorage, else the cookie's; a
\* JSON.parse exception on the localStorage item lands in the outer catch,
\* which skips the cookie too
apiRequestInterceptor(c, l) ==
  IF l # NoEntry
  THEN IF JSONparses(l) THEN JSONparse(l) ELSE None
  ELSE IF c # NoEntry /\ JSONparses(getCookie(c))
       THEN JSONparse(getCookie(c))
       ELSE None

\* api.get(url): kind "documents" is GET /documents, kind "document" is
\* GET /documents/{id}; replays counts _retryCount, retry is _retry
apiGet(s, kind) ==
  IF s.hist.sent >= MaxSent
  THEN [s EXCEPT !.over = TRUE]
  ELSE LET r == [id |-> s.hist.sent + 1, kind |-> kind,
                 owner |-> Owner("svc", 0),
                 hdr |-> apiRequestInterceptor(s.cookie, s.ls),
                 retry |-> FALSE, ictok |-> None, st |-> "flight",
                 replays |-> 0, lo |-> FALSE]
       IN [s EXCEPT !.reqs = @ \cup {r}, !.hist.sent = @ + 1]

\* api.get('/documents')
apiDispatch(s) == apiGet(s, "documents")

\* config.url?.includes('/documents/') && config.method === 'get'
documentDownload(r) == r.kind = "document"

\* documentService.fetchDocuments after await api.getDocuments()
serviceResume(s, res) ==
  [s EXCEPT !.hist.svcRes = IF res.ok THEN "ok"
                            ELSE IF res.status = 401 THEN "status401"
                            ELSE "error"]

\* the response interceptor of the instance: an error that carries a
\* response is rejected as it is; a timeout or network error is retried by
\* retryRequest after a backoff until _retryCount reaches MAX_RETRIES
\* variant for C38: retryRequest without the test of the retry count
apiResponseInterceptor_Unbounded(s, r, e) ==
  IF e.hasResp \/ r.retry
  THEN serviceResume(Drop(s, r), e)
  ELSE [s EXCEPT !.reqs = (@ \ {r}) \cup {[r EXCEPT !.st = "backoff"]}]

\* a document download whose _retryCount has reached MAX_RETRIES is sent
\* once more at once, marked _retry
apiResponseInterceptor(s, r, e) ==
  IF e.hasResp \/ r.retry
  THEN serviceResume(Drop(s, r), e)
  ELSE IF documentDownload(r) /\ r.replays = MAX_RETRIES
       THEN [s EXCEPT !.reqs = (@ \ {r}) \cup
                        {[r EXCEPT !.retry = TRUE,
                                   !.hdr = apiRequestInterceptor(s.cookie,
                                                                 s.ls)]}]
       ELSE IF r.replays >= MAX_RETRIES
            THEN serviceResume(Drop(s, r), e)
            ELSE [s EXCEPT !.reqs = (@ \ {r})
                                      \cup {[r EXCEPT !.st = "backoff"]}]

\* Math.pow(2, retryCount) * 1000
retryDelay(retryCount) == (2 ^ retryCount) * 1000

\* retryRequest after its delay: api(newConfig), through the request
\* interceptor again
retryRequest(s, r) ==
  [s EXCEPT !.now = @ + retryDelay(r.replays),
            !.reqs = (@ \ {r}) \cup
                       {[r EXCEPT !.st = "flight",
                                  !.replays = @ + 1,
                                  !.hdr = apiRequestInterceptor(s.cookie,
                                                                s.ls)]}]

(***************************************************************************)
(* The response interceptor and the delivery of a result to the awaiting   *)
(* code.  Promise continuations run as microtasks, so everything up to the *)
(* next await of a network call or timer belongs to the same step.         *)
(***************************************************************************)
ReqOf(s, id) == CHOOSE q \in s.reqs : q.id = id

RECURSIVE Deliver(_, _, _)

\* a refreshToken() called by the scheduler settles; nobody awaits it
schedulerResume(s, res) ==
  [refreshTokenResume(s, res)
     EXCEPT !.hist.refreshed = IF res.ok THEN res.tok ELSE @]

\* the rejection built when the refresh of a 401 failed (lines 197-208)
authClearedError(e) ==
  [e EXCEPT !.authCleared = TRUE, !.hasResp = TRUE, !.status = 0]

\* after await refreshToken() in the response interceptor of request id
interceptorResume(s, id, res) ==
  LET r == ReqOf(s, id)
      s1 == refreshTokenResume(s, res)
  IN IF res.ok
     THEN \* originalRequest.headers.Authorization = `Bearer ${token}` with
          \* the closure's token, then axios(originalRequest)
          LET r2 == [r EXCEPT !.hdr = requestInterceptor(s1, r.ictok),
                              !.ictok = s1.icTok,
                              !.st = "flight",
                              !.replays = @ + 1]
          IN [s1 EXCEPT !.reqs = (@ \ {r}) \cup {r2}]
     ELSE Deliver(clearAllAuthData(Drop(s1, r)),
                  r.owner, authClearedError(ErrHttp(401)))

\* variant for C5: the test without the _retry flag
refreshableError_IgnoringRetry(r, e) == e.status = 401

\* error.response?.status === 401 && !originalRequest._retry
refreshableError(r, e) == e.status = 401 /\ ~r.retry

\* the error handler of the response interceptor, for request r
responseInterceptor(s, r, e) ==
  IF e.code = "net" \/ ~e.hasResp
  THEN Deliver(Drop(s, r), r.owner, [e EXCEPT !.hasResp = TRUE])
  ELSE IF refreshableError(r, e)
       THEN IF refreshTokenStarts(r.ictok)
            THEN LET r1 == [r EXCEPT !.retry = TRUE, !.st = "refreshing"]
                     s1 == [s EXCEPT !.reqs = (@ \ {r}) \cup {r1}]
                 IN refreshTokenStart(s1, r.ictok, Owner("ic", r.id))
            ELSE Deliver(clearAllAuthData(Drop(s, r)),
                         r.owner, authClearedError(e))
       ELSE Deliver(Drop(s, r), r.owner, e)

Deliver(s, owner, res) ==
  CASE owner.t = "chk" -> checkAuthResume(s, res)
    [] owner.t = "auth" -> authResume(s, res)
    [] owner.t = "sched" -> schedulerResume(s, res)
    [] owner.t = "api" -> apiResume(s, res)
    [] owner.t = "ic" -> interceptorResume(s, owner.r, res)
    [] owner.t = "svc" -> serviceResume(s, res)

\* the rejection handler of the client the request was sent through
onRejected(s, r, e) ==
  IF r.owner.t = "svc"
  THEN apiResponseInterceptor(s, r, e)
  ELSE responseInterceptor(s, r, e)

(***************************************************************************)
(* The refresh scheduler                                                   *)
(***************************************************************************)
NoTimer == [due |-> -1, tok |-> None]

\* variant for C16: the timer behind the handle is left running
clearTimeout_LeavesTimer(s) == s

\* window.clearTimeout(refreshTimerRef.current)
clearTimeout(s) ==
  [s EXCEPT !.timers = @ (-) SetToBag({s.refreshTimerRef})]

\* variant for C31: the previous timer is cleared and none is armed
setupRefreshTimer_NeverArms(s, tok) ==
  LET s1 == IF s.refreshTimerRef # NoTimer
            THEN [clearTimeout(s) EXCEPT !.refreshTimerRef = NoTimer]
            ELSE s
  IN IF tok = None \/ ~decodes(tok) THEN s1
     ELSE IF Exp(tok) * 1000 - s.now < REFRESH_THRESHOLD_MS
          THEN IF refreshTokenStarts(tok)
               THEN refreshTokenStart(s1, tok, Owner("sched", 0))
               ELSE s1
          ELSE s1

\* variant for C15: a timer is armed whatever the time left
setupRefreshTimer_AlwaysTimer(s, tok) ==
  LET t == [due |-> Exp(tok) * 1000 - REFRESH_THRESHOLD_MS, tok |-> tok]
  IN IF tok = None \/ ~decodes(tok) THEN clearTimeout(s)
     ELSE [clearTimeout(s) EXCEPT !.timers = @ (+) SetToBag({t}),
                                  !.refreshTimerRef = t]

\* setupRefreshTimer in the closure of a render whose token was tok
setupRefreshTimer(s, tok) ==
  LET s1 == IF s.refreshTimerRef # NoTimer
            THEN [clearTimeout(s) EXCEPT !.refreshTimerRef = NoTimer]
            ELSE s
      timeUntilExpiry == Exp(tok) * 1000 - s.now
      t == [due |-> s.now + (timeUntilExpiry - REFRESH_THRESHOLD_MS),
            tok |-> tok]
  IN IF tok = None \/ ~decodes(tok) THEN s1
     ELSE IF timeUntilExpiry < REFRESH_THRESHOLD_MS
          THEN IF refreshTokenStarts(tok)
               THEN refreshTokenStart(s1, tok, Owner("sched", 0))
               ELSE s1
          ELSE [s1 EXCEPT !.timers = @ (+) SetToBag({t}),
                          !.refreshTimerRef = t]

(***************************************************************************)
(* clearStaleTokenOnStartup, the body of the auth-check effect             *)
(***************************************************************************)
clearStaleTokenOnStartup(s, tok, usr, checking) ==
  LET stale == /\ ~s.onAuthPage
               /\ s.ls # NoEntry
               /\ \/ ~JSONparses(s.ls)
                  \/ ~decodes(JSONparse(s.ls))
                  \/ expiredAt(JSONparse(s.ls), s.now)
      s1 == IF s.initialLoadRef
            THEN IF stale
                 THEN clearAllAuthData([s EXCEPT !.initialLoadRef = FALSE])
                 ELSE [s EXCEPT !.initialLoadRef = FALSE]
            ELSE s
  IN checkAuth(s1, tok, usr, checking)

(***************************************************************************)
(* The effects of one render, in source order.  refreshToken and           *)
(* clearAllAuthData depend on the functions useStorage returns, which are  *)
(* new on every render, so every effect runs again after every render:     *)
(* the interceptor effect's cleanup (which clears the timer without        *)
(* resetting the ref), the interceptor effect, the timer effect and the    *)
(* auth-check effect.                                                      *)
(***************************************************************************)
effects(s) ==
  LET tok == s.token
      usr == s.user
      checking == s.isCheckingAuth
      s1 == IF s.refreshTimerRef # NoTimer THEN clearTimeout(s) ELSE s
      s2 == [s1 EXCEPT !.icTok = tok]
      s3 == IF tok # None THEN setupRefreshTimer(s2, tok) ELSE s2
  IN clearStaleTokenOnStartup(s3, tok, usr, checking)

\* variant for C17: logout removes the token and forgets the rest
logout_TokenOnly(s) == removeValue(s)

\* logout
logout(s) ==
  LET s1 == IF s.refreshTimerRef # NoTimer
            THEN [clearTimeout(s) EXCEPT !.refreshTimerRef = NoTimer]
            ELSE s
  IN clearAllAuthData(s1)

(***************************************************************************)
(* Initial state: the component is constructed (useState initialisers run) *)
(* over what an earlier session left in the two storage surfaces.          *)
(***************************************************************************)
\* nothing stored; a token written by setValue (expired since, expiring at
\* this very millisecond, about to expire, long-lived, or undecodable); a
\* token whose cookie has expired
StoredAtStart == {"tX", "tE", "tA", "tB", "bad"}
InitStores ==
  {<<NoEntry, NoEntry>>}
  \cup {<<setCookie(JSONstringify(t)), JSONstringify(t)>> : t \in StoredAtStart}
  \cup {<<NoEntry, JSONstringify("tB")>>}

\* hist: ops counts the calls from outside and sent the requests.  kind,
\* username, posts, retryAfter (the status that preceded a second login
\* attempt, 0 for none), result, tokenSet, newTok describe the last login /
\* register.  lastCheck is the start of the last auth check performed,
\* tooSoon whether one started less than DEBOUNCE_TIME after the one before,
\* dropped whether the debounce test dropped an invocation.  late is "null"
\* once fetchUserProfile answered null to a caller because a fetch was in
\* flight, inflight what that fetch ended with.  meHttp: a GET /users/me got
\* an HTTP answer since the last login / register call.  loggedOut: logout was called.  apiRes is what the last
\* component request ended with, svcRes what the last request through the
\* api instance ended with.  shown is the message the Login page shows
\* for the error the last login / register threw, cause the status the
\* backend had sent for the request whose failure ended it (0: none).
\* meFailed: a GET /users/me failed while the last login / register was
\* in progress.
\* misjudged: a performed check classified its token's expiry otherwise than
\* now >= exp.  refreshed: the last token a refresh started by the scheduler
\* obtained.
HistInit == [ops |-> 0, sent |-> 0, kind |-> "", username |-> "",
             posts |-> 0, retryAfter |-> -1, result |-> "none",
             tokenSet |-> FALSE, newTok |-> None, tooSoon |-> FALSE,
             dropped |-> FALSE, lastCheck |-> -1, late |-> "none",
             inflight |-> "none", meHttp |-> FALSE, meFailed |-> FALSE,
             loggedOut |-> FALSE,
             apiRes |-> "none", svcRes |-> "none", shown |-> "", cause |-> -1,
             misjudged |-> FALSE, refreshed |-> None]

InitOver(stores) ==
  /\ now = StartTime
  /\ ticks = 0
  /\ \E st \in stores : cookie = st[1] /\ ls = st[2]
  /\ token = getStoredValue(cookie, ls)
  /\ user = NoUser
  /\ isLoading = TRUE
  /\ isCheckingAuth = FALSE
  /\ authHeader = None
  /\ refreshTimerRef = NoTimer
  /\ timers = EmptyBag
  /\ fetchingUserRef = FALSE
  /\ lastAuthCheckRef = 0
  /\ initialLoadRef = TRUE
  /\ onAuthPage \in BOOLEAN
  /\ icTok = None
  /\ dirty = TRUE
  /\ chk = "idle"
  /\ auth = AuthIdle
  /\ reqs = {}
  /\ hist = HistInit

Init == InitOver(InitStores)

(***************************************************************************)
(* Actions                                                                 *)
(***************************************************************************)
\* React commits the pending render and runs the effects
Render ==
  /\ dirty
  /\ Commit(effects([St EXCEPT !.dirty = FALSE]))

\* the backend answers request r successfully
RespondOk ==
  /\ ~dirty
  /\ \E r \in reqs : \E a \in Answers(r, now) :
       /\ r.st = "flight"
       /\ a.ok
       /\ Commit(Deliver(Drop(St, r), r.owner, a))

\* request r fails: error status, network error or timeout
RespondError ==
  /\ ~dirty
  /\ \E r \in reqs : \E a \in Answers(r, now) :
       /\ r.st = "flight"
       /\ ~a.ok
       /\ Commit(onRejected(St, r, a))

\* the refresh timer fires: its callback calls refreshToken
TimerFire ==
  /\ ~dirty
  /\ \E t \in BagToSet(timers) :
       Commit(refreshTokenStart([St EXCEPT !.now = Max(now, t.due),
                                           !.timers = @ (-) SetToBag({t})],
                                t.tok, Owner("sched", 0)))

\* a timer awaited by login / register elapses
AuthWake ==
  /\ ~dirty
  /\ auth.pc \in {"backoff", "settle", "retryWait"}
  /\ Commit(authWake(St))

AuthCall(kind, u) ==
  /\ ~dirty
  /\ auth.pc = "idle"
  /\ hist.ops < MaxOps
  /\ LET s1 == [St EXCEPT !.isLoading = TRUE,
                          !.auth = [AuthIdle EXCEPT !.pc = "post",
                                                    !.kind = kind,
                                                    !.username = u,
                                                    !.capTok = token],
                          !.hist.ops = @ + 1,
                          !.hist.kind = kind,
                          !.hist.username = u,
                          !.hist.posts = 0,
                          !.hist.retryAfter = -1,
                          !.hist.result = "none",
                          !.hist.tokenSet = FALSE,
                          !.hist.newTok = None,
                          !.hist.meHttp = FALSE,
                          !.hist.meFailed = FALSE,
                          !.hist.shown = "",
                          !.hist.cause = -1]
     IN Commit(authPost(s1))

LoginCall == \E u \in Users : AuthCall("login", u)

RegisterCall == \E u \in Users : AuthCall("register", u)

LogoutCall ==
  /\ ~dirty
  /\ hist.ops < MaxOps
  /\ Commit(logout([St EXCEPT !.hist.ops = @ + 1,
                              !.hist.loggedOut = TRUE,
                              !.reqs = {[r EXCEPT !.lo = TRUE] : r \in reqs}]))

\* a page behind ProtectedRoute sends a request (Chat.tsx)
ApiCall ==
  /\ ~dirty
  /\ user # NoUser
  /\ ~isLoading
  /\ hist.ops < MaxOps
  /\ Commit(Dispatch([St EXCEPT !.hist.ops = @ + 1,
                                !.hist.apiRes = "none"],
                     "api", Owner("api", 0), None))

\* a page behind ProtectedRoute loads its documents through the api
\* instance (Chat.tsx fetchDocuments)
ServiceCall ==
  /\ ~dirty
  /\ user # NoUser
  /\ ~isLoading
  /\ hist.ops < MaxOps
  /\ Commit(apiDispatch([St EXCEPT !.hist.ops = @ + 1,
                                   !.hist.svcRes = "none"]))

\* a page loads one document through the api instance
DocumentCall ==
  /\ ~dirty
  /\ user # NoUser
  /\ ~isLoading
  /\ hist.ops < MaxOps
  /\ Commit(apiGet([St EXCEPT !.hist.ops = @ + 1,
                              !.hist.svcRes = "none"], "document"))

\* the backoff of a request of the api instance elapses
ServiceRetry ==
  /\ ~dirty
  /\ \E r \in reqs :
       /\ r.st = "backoff"
       /\ Commit(retryRequest(St, r))

\* the handler of the window's storage event (useStorage): the in-memory
\* value becomes the parsed new value, or the initial value on a removal
handleStorageChange(s, newValue) ==
  [s EXCEPT !.token = IF newValue # NoEntry THEN JSONparse(newValue)
                      ELSE None]

\* another tab of the same application removes the token (its
\* removeValue): both shared surfaces are emptied and this tab gets the
\* storage event
OtherTabRemoves ==
  /\ ~dirty
  /\ hist.ops < MaxOps
  /\ ls # NoEntry
  /\ Commit(handleStorageChange([St EXCEPT !.ls = NoEntry,
                                           !.cookie = NoEntry,
                                           !.hist.ops = @ + 1], NoEntry))

\* another tab stores a token it has just obtained (its setValue)
OtherTabReplaces ==
  /\ ~dirty
  /\ hist.ops < MaxOps
  /\ \E t \in Mintable(now) \cap Minted :
       /\ ls # JSONstringify(t)
       /\ Commit(handleStorageChange(
                   [St EXCEPT !.ls = JSONstringify(t),
                              !.cookie = setCookie(JSONstringify(t)),
                              !.hist.ops = @ + 1], JSONstringify(t)))

\* time passes
Tick ==
  /\ ~dirty
  /\ ticks < MaxTicks
  /\ Commit([St EXCEPT !.now = @ + TickMs, !.ticks = @ + 1])

Next ==
  \/ Render
  \/ RespondOk
  \/ RespondError
  \/ TimerFire
  \/ AuthWake
  \/ LoginCall
  \/ RegisterCall
  \/ LogoutCall
  \/ ApiCall
  \/ Tick

Spec == Init /\ [][Next]_vars

TypeOK ==
  /\ token \in Tokens \cup {None}
  /\ authHeader \in Tokens \cup {None}
  /\ chk \in {"idle", "fetch"}
  /\ Cardinality(reqs) <= MaxSent

(***************************************************************************)
(* Vocabulary of the properties                                            *)
(***************************************************************************)
\* isAuthenticated: !!user
Authenticated == user # NoUser
\* no profile, and no check, login or register in progress
Unauthenticated ==
  /\ user = NoUser
  /\ ~isLoading
  /\ ~isCheckingAuth
  /\ ~dirty
  /\ chk = "idle"
  /\ auth.pc = "idle"
\* what a read of the Token Store returns
StoredToken == getStoredValue(cookie, ls)
StoreEmpty == cookie = NoEntry /\ ls = NoEntry
\* Session Teardown has left nothing: both surfaces, the in-memory token and
\* the default Authorization header
TornDown == StoreEmpty /\ token = None /\ authHeader = None
InFlight(kind) == {r \in reqs : r.kind = kind /\ r.st = "flight"}

(***************************************************************************)
(* C1.  In every reachable state: Authenticated implies that the Token     *)
(* Store holds a token that has not expired (now < exp), and               *)
(* Unauthenticated implies that cookie and localStorage are both empty.    *)
(***************************************************************************)
C1_AuthStateInvariant ==
  /\ Authenticated =>
        (StoredToken \in WellFormed /\ now < Exp(StoredToken) * 1000)
  /\ Unauthenticated => StoreEmpty

(***************************************************************************)
(* C2.  When the response of a POST /auth/refresh that was pending while   *)
(* logout ran is processed in a torn-down session, the session is still    *)
(* torn down afterwards: cookie, localStorage, in-memory token and default *)
(* Authorization header stay empty.                                        *)
(***************************************************************************)
C2_NoRepopulationAfterLogout ==
  [][(TornDown /\ \E r \in reqs : /\ r.kind = "refresh"
                                  /\ r.st = "flight"
                                  /\ r.lo
                                  /\ r \notin reqs')
       => TornDown']_vars

(***************************************************************************)
(* C3.  For every token, at most one GET /users/me carrying it is in       *)
(* flight, whatever callers of fetchUserProfile run concurrently.          *)
(***************************************************************************)
C3_SingleProfileFetch ==
  \A t \in Tokens :
    Cardinality({r \in InFlight("me") : r.hdr = t}) <= 1

\* a caller of fetchUserProfile met the guard while a fetch was in flight
C3_Witness ==
  /\ hist.late = "null"
  /\ InFlight("me") # {}

(***************************************************************************)
(* C4.  A caller that asked for the profile while a fetch was in flight    *)
(* ends with what that fetch ended with: once both are known, the value    *)
(* handed to the later caller is the outcome of the in-flight fetch        *)
(* (a profile or an error), and until then the later caller has been       *)
(* handed nothing.                                                         *)
(***************************************************************************)
C4_LaterCallerSharesResult ==
  /\ hist.late # "none" => hist.inflight # "none"
  /\ hist.inflight # "none" => hist.late = hist.inflight

(***************************************************************************)
(* C5.  A request is replayed by the response interceptor at most once,    *)
(* and a request already replayed never waits for a further refresh.       *)
(***************************************************************************)
C5_RetriedAtMostOnce ==
  \A r \in reqs :
    /\ r.replays <= 1
    /\ r.replays = 1 => (r.retry /\ r.st = "flight")

\* a replayed request got 401 again and the 401 reached the caller
C5_Witness == hist.apiRes = "status401"

(***************************************************************************)
(* C6.  A step in which the refresh triggered by a 401 fails (the request  *)
(* waiting in the interceptor is rejected) leaves the Token Store empty    *)
(* and the profile null and hands a component caller the authCleared       *)
(* error; and whenever a component caller is handed the authCleared error  *)
(* the Token Store is empty and the profile null.                          *)
(***************************************************************************)
RefreshFailedFor(r) ==
  /\ r.st = "refreshing"
  /\ \A q \in reqs' : q.id # r.id

C6_RefreshFailureTearsDown ==
  [][/\ \A r \in reqs :
          RefreshFailedFor(r) =>
            /\ TornDown'
            /\ user' = NoUser
            /\ r.owner.t = "api" => hist'.apiRes = "authCleared"
     /\ (hist.apiRes # "authCleared" /\ hist'.apiRes = "authCleared")
          => (TornDown' /\ user' = NoUser)]_vars

C6_Witness ==
  /\ hist.apiRes = "authCleared"
  /\ TornDown
  /\ user = NoUser

(***************************************************************************)
(* C7.  At most one POST /auth/refresh is in flight at any time.           *)
(***************************************************************************)
C7_SingleFlightRefresh == Cardinality(InFlight("refresh")) <= 1

(***************************************************************************)
(* C8.  No auth check is performed less than DEBOUNCE_TIME after the start *)
(* of the previous performed check: of two invocations closer than that,   *)
(* only the first is performed.                                            *)
(***************************************************************************)
C8_DebouncedChecks == ~hist.tooSoon

\* an invocation was dropped by the debounce test after a performed check
C8_Witness ==
  /\ hist.dropped
  /\ hist.lastCheck >= 0
  /\ token # None

(***************************************************************************)
(* C9.  When a login that obtained a token returns while no GET /users/me  *)
(* got through (network error or timeout each time) and nothing else was   *)
(* called, it returns partial success, the Token Store still holds a       *)
(* token, and the profile is the minimal profile of the submitted          *)
(* username.                                                               *)
(***************************************************************************)
LoginReturns ==
  /\ auth.pc # "idle"
  /\ auth'.pc = "idle"
  /\ hist'.kind = "login"

C9_PartialSuccessKeepsToken ==
  [][(LoginReturns /\ hist'.newTok # None /\ ~hist'.meHttp
                   /\ hist'.ops = 1)
       => /\ hist'.result = "partial"
          /\ user' = MinimalProfile(hist'.username)
          /\ getStoredValue(cookie', ls') \in WellFormed
          /\ cookie' # NoEntry
          /\ ls' # NoEntry]_vars

(***************************************************************************)
(* C10.  One login call posts to /auth/login at most maxAttempts (2)       *)
(* times; a second attempt follows only a network or timeout failure,      *)
(* never an HTTP error answer; a first attempt that succeeds is the only   *)
(* one.                                                                    *)
(***************************************************************************)
C10_BoundedLoginRetry ==
  hist.kind = "login" =>
    /\ hist.posts <= maxAttempts
    /\ hist.posts = 2 => hist.retryAfter = 0
    /\ (hist.newTok # None /\ hist.retryAfter = -1) => hist.posts = 1

(***************************************************************************)
(* C11.  A login that ends because the backend rejected the credentials    *)
(* with a 4xx answer shows the backend's detail message, and no login      *)
(* request ever waits in the response interceptor for a refresh.           *)
(***************************************************************************)
ClientErrorStatuses == {st \in HttpErrorStatuses : st >= 400 /\ st < 500}

C11_RejectionSurfacedVerbatim ==
  /\ (hist.kind = "login" /\ hist.result = "thrown" /\ hist.newTok = None
       /\ hist.cause \in ClientErrorStatuses)
        => hist.shown = "backend detail"
  /\ \A r \in reqs : r.kind = "login" => r.st = "flight"

(***************************************************************************)
(* C12.  When a login that obtained a token returns after its profile      *)
(* fetch failed with 401, it has thrown, the session is torn down with a   *)
(* null profile, the message shown is an authentication failure, and the   *)
(* error does not say that a token was set.                                *)
(***************************************************************************)
AuthenticationMessages ==
  {"Authentication failed. Please log in again.",
   "Authentication failed. Please try logging in again."}

C12_ProfileUnauthorizedIsHardFailure ==
  [][(LoginReturns /\ hist'.newTok # None /\ hist'.cause = 401)
       => /\ hist'.result = "thrown"
          /\ TornDown'
          /\ user' = NoUser
          /\ hist'.shown \in AuthenticationMessages
          /\ ~hist'.tokenSet]_vars

(***************************************************************************)
(* C13.  The first render over a stored token that is malformed or expired *)
(* (now >= exp) ends torn down and unauthenticated: both surfaces and the  *)
(* in-memory token empty, profile null, no check left in progress, and no  *)
(* GET /users/me sent.                                                     *)
(***************************************************************************)
StartupInvalid ==
  /\ initialLoadRef
  /\ token # None
  /\ (token \notin WellFormed \/ now >= Exp(token) * 1000)

C13_InvalidTokenAtStartup ==
  [][StartupInvalid
       => /\ StoreEmpty'
          /\ token' = None
          /\ user' = NoUser
          /\ ~isLoading'
          /\ ~isCheckingAuth'
          /\ InFlight("me")' = {}]_vars

(***************************************************************************)
(* C14.  Every auth check classifies its token as expired exactly when     *)
(* now >= exp, the instant now = exp included.                             *)
(***************************************************************************)
C14_ExpiryBoundary == ~hist.misjudged

(***************************************************************************)
(* C15.  A render whose token has less than REFRESH_THRESHOLD_MS left      *)
(* sends POST /auth/refresh for it at once and leaves no timer armed; no   *)
(* timer is ever armed with a negative delay; and when a refresh started   *)
(* by the scheduler succeeds, the new token is in the in-memory token, the *)
(* cookie and localStorage.                                                *)
(***************************************************************************)
InWindow(tok, time) ==
  tok \in WellFormed /\ Exp(tok) * 1000 - time < REFRESH_THRESHOLD_MS

C15_ImmediateRefreshInWindow ==
  [][/\ (dirty /\ InWindow(token, now))
          => /\ \E r \in reqs' \ reqs : /\ r.kind = "refresh"
                                       /\ r.owner.t = "sched"
                                       /\ r.hdr = token
             /\ timers' = EmptyBag
     /\ \A t \in BagToSet(timers') \ BagToSet(timers) : t.due >= now'
     /\ hist'.refreshed # hist.refreshed
          => /\ token' = hist'.refreshed
             /\ ls' = JSONstringify(hist'.refreshed)
             /\ cookie' = setCookie(JSONstringify(hist'.refreshed))]_vars

\* the immediate refresh of tA, armed with one second left, succeeded
C15_Witness ==
  /\ hist.refreshed = "tB"
  /\ StoredToken = "tB"
  /\ token = "tB"

(***************************************************************************)
(* C16.  At most one refresh timer is live; once the effects of a render   *)
(* have run, a live timer is the one the handle refers to and was armed    *)
(* for the current token, so a timer armed for an earlier token never      *)
(* fires.                                                                  *)
(***************************************************************************)
C16_SingleLiveTimer ==
  /\ BagCardinality(timers) <= 1
  /\ ~dirty => \A t \in BagToSet(timers) :
                  t = refreshTimerRef /\ t.tok = token

\* the token was replaced by a refresh and the one live timer is the new
\* token's
C16_Witness ==
  /\ ~dirty
  /\ token = "tC"
  /\ BagCardinality(timers) = 1
  /\ refreshTimerRef.tok = "tC"

(***************************************************************************)
(* C17.  Every logout ends with the session torn down, the profile null,   *)
(* no timer, and a read of the Token Store returning null; a logout of a   *)
(* session already torn down (by an earlier logout or by a 401 teardown)   *)
(* changes none of that, and neither does a 401 teardown of a session      *)
(* already torn down.                                                      *)
(***************************************************************************)
\* a call from outside that sends no request: logout
LogoutStep == hist'.ops = hist.ops + 1 /\ hist'.sent = hist.sent

SessionSurfaces ==
  <<cookie, ls, token, user, authHeader, refreshTimerRef, timers>>

C17_LogoutIdempotent ==
  [][/\ LogoutStep
          => /\ TornDown'
             /\ user' = NoUser
             /\ StoredToken' = None
             /\ timers' = EmptyBag
             /\ refreshTimerRef' = NoTimer
             /\ (TornDown /\ user = NoUser /\ timers = EmptyBag
                   /\ refreshTimerRef = NoTimer)
                  => SessionSurfaces' = SessionSurfaces
     /\ (TornDown /\ user = NoUser /\ \E r \in reqs : RefreshFailedFor(r))
          => (TornDown' /\ user' = NoUser)]_vars

\* two calls from outside were made and neither was a login, a register or
\* a component request: logout was called twice
C17_Witness ==
  /\ hist.ops = 2
  /\ hist.loggedOut
  /\ hist.kind = ""
  /\ hist.apiRes = "none"
  /\ \A r \in reqs : r.kind # "api"
  /\ TornDown

(***************************************************************************)
(* C18.  From whatever state logout is called, when it returns the refresh *)
(* timer is cancelled, cookie and localStorage hold no token, the profile  *)
(* is null and the state is Unauthenticated: no check, login or register   *)
(* is left in progress.                                                    *)
(***************************************************************************)
C18_LogoutFromAnyState ==
  [][LogoutStep
       => /\ timers' = EmptyBag
          /\ StoreEmpty'
          /\ user' = NoUser
          /\ ~isLoading'
          /\ ~isCheckingAuth'
          /\ chk' = "idle"
          /\ auth'.pc = "idle"]_vars

(***************************************************************************)
(* C19.  When the answer to a GET /users/me that was sent while a token    *)
(* was held is processed in a session torn down since, the profile is      *)
(* still null afterwards.                                                  *)
(***************************************************************************)
C19_NoResurrectionByProfile ==
  [][\A r \in reqs :
       (/\ r.kind = "me"
        /\ r.st = "flight"
        /\ r.ictok # None
        /\ TornDown
        /\ user = NoUser
        /\ \A q \in reqs' : q.id # r.id)
         => user' = NoUser]_vars

(***************************************************************************)
(* C20.  Teardown is all or nothing: a step that clears any of the cookie, *)
(* localStorage, the in-memory token, the profile or the default           *)
(* Authorization header ends with all five cleared.                        *)
(***************************************************************************)
SomethingCleared ==
  \/ cookie # NoEntry /\ cookie' = NoEntry
  \/ ls # NoEntry /\ ls' = NoEntry
  \/ token # None /\ token' = None
  \/ user # NoUser /\ user' = NoUser
  \/ authHeader # None /\ authHeader' = None

C20_AtomicTeardown ==
  [][SomethingCleared => (TornDown' /\ user' = NoUser)]_vars

\* a session that held a token and sent requests was torn down without any
\* call from outside: by the auth check or by the response interceptor
C20_Witness ==
  /\ TornDown
  /\ user = NoUser
  /\ hist.sent > 0
  /\ hist.ops = 0
  /\ ~dirty

(***************************************************************************)
(* C21.  After every step that writes the Token Store, a read returns the  *)
(* token written (the in-memory token), whichever surface the read uses:   *)
(* the cookie first as getStoredValue does, localStorage when the cookie   *)
(* is absent, and the cookie alone when localStorage is absent.            *)
(***************************************************************************)
\* a step that leaves a Token Store surface changed and holding an entry
StoreWritten ==
  /\ <<cookie', ls'>> # <<cookie, ls>>
  /\ ~StoreEmpty'

C21_WriteReadRoundTrip ==
  [][StoreWritten
       => /\ token' \in Tokens
          /\ getStoredValue(cookie', ls') = token'
          /\ getStoredValue(NoEntry, ls') = token'
          /\ getStoredValue(cookie', NoEntry) = token']_vars

\* a login wrote its token tA to both surfaces
C21_Witness ==
  /\ hist.newTok = "tA"
  /\ cookie = setCookie(JSONstringify("tA"))
  /\ ls = JSONstringify("tA")
  /\ StoredToken = "tA"

(***************************************************************************)
(* C22.  Every step that changes the cookie or the localStorage entry      *)
(* (a write by login, register or refresh, a logout, a teardown) ends with *)
(* both surfaces holding the same token or both empty.                     *)
(***************************************************************************)
SameToken(c, l) ==
  /\ c # NoEntry
  /\ l # NoEntry
  /\ JSONparses(getCookie(c))
  /\ JSONparses(l)
  /\ JSONparse(getCookie(c)) = JSONparse(l)

C22_SurfacesMoveTogether ==
  [][<<cookie', ls'>> # <<cookie, ls>>
       => (StoreEmpty' \/ SameToken(cookie', ls'))]_vars

\* a refresh started by the scheduler wrote tC to both surfaces
C22_Witness ==
  /\ hist.refreshed = "tC"
  /\ hist.ops = 0
  /\ SameToken(cookie, ls)
  /\ JSONparse(ls) = "tC"

(***************************************************************************)
(* A page reload over a valid token, with nobody calling in and a backend  *)
(* that serves the token: GET /users/me is answered with the profile; the  *)
(* refresh endpoint may answer, fail or be missing, but does not reject    *)
(* the token with 401.  React commits every pending render and the backend *)
(* answers every request it can answer.                                    *)
(***************************************************************************)
ValidAtStart == {"tA", "tB", "tC"}
ReloadStores ==
  {<<setCookie(JSONstringify(t)), JSONstringify(t)>> : t \in ValidAtStart}
  \cup {<<NoEntry, JSONstringify(t)>> : t \in ValidAtStart}

ReloadInit == InitOver(ReloadStores)

\* POST /auth/refresh fails otherwise than by a 401
RefreshUnavailable ==
  /\ ~dirty
  /\ \E r \in reqs : \E a \in Answers(r, now) :
       /\ r.st = "flight"
       /\ r.kind = "refresh"
       /\ ~a.ok
       /\ a.status # 401
       /\ Commit(responseInterceptor(St, r, a))

ReloadNext ==
  \/ Render
  \/ RespondOk
  \/ RefreshUnavailable
  \/ TimerFire
  \/ Tick

ReloadSpec ==
  /\ ReloadInit
  /\ [][ReloadNext]_vars
  /\ WF_vars(Render)
  /\ WF_vars(RespondOk)

(***************************************************************************)
(* C23.  After a reload over a valid token in localStorage, with a backend *)
(* that answers GET /users/me with the profile, the session eventually is  *)
(* Authenticated with that profile and the token still stored, and stays   *)
(* so; unless the request waited so long that its token expired and the    *)
(* backend can no longer answer it with the profile.                       *)
(***************************************************************************)
\* a GET /users/me is still waiting at a time its token has expired
ProfileUnanswerable ==
  \E r \in InFlight("me") : ~Accepts(r.hdr, now)

LoggedInAs(u) ==
  /\ user = Profile(u)
  /\ ~isLoading
  /\ ~isCheckingAuth
  /\ StoredToken \in WellFormed
  /\ now < Exp(StoredToken) * 1000

C23_ReloadKeepsLogin ==
  <>[](ProfileUnanswerable \/ \E u \in Users : LoggedInAs(u))

\* the startup check over the token of localStorage alone (the cookie had
\* expired) ended with the profile
C23_Witness ==
  /\ LoggedInAs("alice")
  /\ cookie = NoEntry
  /\ ls = JSONstringify("tC")
  /\ hist.sent = 1
  /\ ~dirty

(***************************************************************************)
(* C24.  In a torn-down session no refresh timer is live once the effects  *)
(* of the render that follows the teardown have run, and no step taken in  *)
(* a torn-down session issues a POST /auth/refresh.                        *)
(***************************************************************************)
RefreshIssued == \E r \in reqs' \ reqs : r.kind = "refresh"

C24_NoRefreshAfterTeardown ==
  [][/\ (TornDown' /\ ~dirty') => timers' = EmptyBag
     /\ TornDown => ~RefreshIssued]_vars

(***************************************************************************)
(* A session restored from storage and used through its pages: requests    *)
(* through the global client and through the api instance, logout, no      *)
(* login or register.                                                      *)
(***************************************************************************)
PagesNext ==
  \/ Render
  \/ RespondOk
  \/ RespondError
  \/ TimerFire
  \/ LogoutCall
  \/ ApiCall
  \/ ServiceCall
  \/ ServiceRetry
  \/ Tick

PagesSpec == Init /\ [][PagesNext]_vars

(***************************************************************************)
(* C25.  A 401 never reaches the component that sent the request unless    *)
(* the session is torn down in the same step: every 401 either waits for a *)
(* refresh (and then is replayed or ends in teardown) or ends in teardown, *)
(* for requests through the global client and through the api instance.    *)
(***************************************************************************)
UnauthorizedReachesCaller ==
  \/ hist.apiRes # "status401" /\ hist'.apiRes = "status401"
  \/ hist.svcRes # "status401" /\ hist'.svcRes = "status401"

C25_UnauthorizedFunnels ==
  [][UnauthorizedReachesCaller => (TornDown' /\ user' = NoUser)]_vars

(***************************************************************************)
(* C26.  When the refresh a 401 waited for succeeds, the request is        *)
(* resubmitted, for the first and only time, and carries the token the     *)
(* refresh has just written to the Token Store.                            *)
(***************************************************************************)
\* request q of the next state is the resubmission of r, which was waiting
Replayed(r, q) ==
  /\ r.st = "refreshing"
  /\ q.id = r.id
  /\ q.st = "flight"

C26_ReplayCarriesNewToken ==
  [][\A r \in reqs : \A q \in reqs' :
       Replayed(r, q) => /\ q.replays = 1
                         /\ r.replays = 0
                         /\ q.hdr = token'
                         /\ q.hdr = getStoredValue(cookie', ls')]_vars

(***************************************************************************)
(* C27.  Whatever request in flight fails at the network level (timeout,   *)
(* no response), the step that handles the failure leaves the cookie,      *)
(* localStorage, the in-memory token, the profile and the default          *)
(* Authorization header as they were and issues no POST /auth/refresh.     *)
(***************************************************************************)
\* the state after the network failure of request r has been handled
AfterNetworkFailure(r) == onRejected(St, r, ErrNet)

StoredState(s) == <<s.cookie, s.ls, s.token, s.user, s.authHeader>>

C28_FailedRefreshChangesNothing ==
  ~dirty =>
    \A r \in InFlight("refresh") : \A e \in Answers(r, now) :
      ~e.ok =>
        /\ StoredState(refreshTokenResume(St, e)) = StoredState(St)
        /\ (r.owner.t = "sched" /\ ~onRejected(St, r, e).over) =>
             /\ StoredState(onRejected(St, r, e)) = StoredState(St)
             /\ onRejected(St, r, e).hist.refreshed = hist.refreshed

\* the refreshes the scheduler started for tA have all failed and tA is
\* still the token of both surfaces
C28_Witness ==
  /\ token = "tA"
  /\ cookie = setCookie(JSONstringify("tA"))
  /\ ls = JSONstringify("tA")
  /\ hist.refreshed = None
  /\ hist.sent >= 2
  /\ hist.ops = 0
  /\ InFlight("refresh") = {}
  /\ \A r \in reqs : r.st = "flight"
  /\ user # NoUser
  /\ ~dirty

(***************************************************************************)
(* A start over storage entries that something else has damaged: text that *)
(* JSON.parse rejects in the cookie, in localStorage or in both, beside an *)
(* intact token in the other surface or nothing.                           *)
(***************************************************************************)
CorruptStores ==
  {<<setCookie(Garbage), Garbage>>,
   <<setCookie(Garbage), JSONstringify("tB")>>,
   <<setCookie(JSONstringify("tB")), Garbage>>,
   <<setCookie(Garbage), NoEntry>>,
   <<NoEntry, Garbage>>,
   <<NoEntry, JSONstringify("tB")>>}

CorruptInit == InitOver(CorruptStores)

CorruptSpec == CorruptInit /\ [][Next]_vars

\* an entry is present and JSON.parse rejects it
Unparsable(raw) == raw # NoEntry /\ ~JSONparses(raw)
\* the component has just been constructed: useState(getStoredValue) ran
JustMounted == initialLoadRef /\ dirty /\ hist.sent = 0 /\ hist.ops = 0

(***************************************************************************)
(* C29.  The read at construction returns the cookie's token when the      *)
(* cookie parses; when the cookie is absent or does not parse, it returns  *)
(* the token of localStorage if that entry parses.                         *)
(***************************************************************************)
C29_ReadFallsBack ==
  JustMounted =>
    /\ JSONparses(getCookie(cookie)) => token = JSONparse(getCookie(cookie))
    /\ (~JSONparses(getCookie(cookie)) /\ JSONparses(ls))
         => token = JSONparse(ls)

(***************************************************************************)
(* C30.  When both entries are unparsable at construction, the read        *)
(* returns null, and once the first render's effects have run both entries *)
(* are cleared, so that no later read finds them.                          *)
(***************************************************************************)
C30_CorruptEntriesCleared ==
  [][(JustMounted /\ Unparsable(getCookie(cookie)) /\ Unparsable(ls))
       => (token = None /\ StoreEmpty')]_vars

(***************************************************************************)
(* C31.  A timer is armed only by the effects of a render, never by the    *)
(* step in which a timer fires; a render whose token has at least          *)
(* REFRESH_THRESHOLD_MS left (such as the render that follows a successful *)
(* refresh) leaves exactly one timer, due at the token's expiry minus the  *)
(* threshold, and sends no refresh; and the scheduler sends a refresh only *)
(* when a timer fires or a render finds its token inside the threshold.    *)
(***************************************************************************)
TimerFor(tok) ==
  [due |-> Exp(tok) * 1000 - REFRESH_THRESHOLD_MS, tok |-> tok]
\* the refresh calls of the scheduler among the requests rs, by id
SchedulerRefreshes(rs) ==
  {r.id : r \in {q \in rs : q.kind = "refresh" /\ q.owner.t = "sched"}}
TimerFired == \E t \in BagToSet(timers) : timers' = timers (-) SetToBag({t})

C31_TimerRearmedByRender ==
  [][/\ ~dirty => \A t \in BagToSet(timers') : t \in BagToSet(timers)
     /\ (dirty /\ token \in WellFormed /\ ~InWindow(token, now))
          => /\ timers' = SetToBag({TimerFor(token)})
             /\ refreshTimerRef' = TimerFor(token)
             /\ SchedulerRefreshes(reqs') \subseteq SchedulerRefreshes(reqs)
     /\ ~(SchedulerRefreshes(reqs') \subseteq SchedulerRefreshes(reqs))
          => \/ ~dirty /\ TimerFired
             \/ dirty /\ InWindow(token, now)]_vars

\* the timer of tB fired, its refresh obtained tC, and the render that
\* followed armed the timer of tC
C31_Witness ==
  /\ hist.refreshed = "tC"
  /\ now >= Exp("tB") * 1000 - REFRESH_THRESHOLD_MS
  /\ token = "tC"
  /\ timers = SetToBag({TimerFor("tC")})
  /\ SchedulerRefreshes(reqs) = {}
  /\ ~dirty

(***************************************************************************)
(* C32.  A render that holds a profile and a token that has not expired    *)
(* runs its effects (the auth check among them) without sending a          *)
(* GET /users/me and leaves the profile as it was.                         *)
(***************************************************************************)
ProfileFetches(rs) == {r.id : r \in {q \in rs : q.kind = "me"}}

C32_CachedProfileNotRefetched ==
  [][(dirty /\ user # NoUser /\ token \in WellFormed
            /\ now < Exp(token) * 1000)
       => /\ ProfileFetches(reqs') \subseteq ProfileFetches(reqs)
          /\ user' = user]_vars

\* a second auth check was performed (not debounced) over the profile the
\* first one fetched, and the first GET /users/me is still the only request
C32_Witness ==
  /\ user = Profile("alice")
  /\ token = "tB"
  /\ hist.lastCheck >= StartTime + DEBOUNCE_TIME
  /\ hist.sent = 1
  /\ hist.ops = 0
  /\ chk = "idle"
  /\ ~isLoading
  /\ ~dirty

(***************************************************************************)
(* C33.  An auth check that waited for the profile ends either with the    *)
(* profile set or with the session torn down, the profile null and no      *)
(* check left in progress; and whenever its GET /users/me gets 401 or      *)
(* fails at the network level, the step that handles the failure either    *)
(* ends the check torn down in that way or, for a 401, leaves the request  *)
(* waiting for the interceptor's refresh.                                  *)
(***************************************************************************)
\* record s is torn down and unauthenticated, its check over
EndedTornDown(s) ==
  /\ s.cookie = NoEntry
  /\ s.ls = NoEntry
  /\ s.token = None
  /\ s.authHeader = None
  /\ s.user = NoUser
  /\ s.chk = "idle"
  /\ ~s.isLoading
  /\ ~s.isCheckingAuth

ProfileFetchFailures == {ErrNet, ErrHttp(401)}

C33_FailedProfileFetchTearsDown ==
  [][/\ (chk = "fetch" /\ chk' = "idle")
          => \/ \E u \in Users : user' = Profile(u)
             \/ /\ TornDown'
                /\ user' = NoUser
                /\ ~isLoading'
                /\ ~isCheckingAuth'
     /\ ~dirty =>
          \A r \in reqs : \A e \in ProfileFetchFailures :
            (r.owner.t = "chk" /\ r.st = "flight"
               /\ ~onRejected(St, r, e).over)
              => \/ EndedTornDown(onRejected(St, r, e))
                 \/ /\ e.status = 401
                    /\ \E q \in onRejected(St, r, e).reqs :
                         q.id = r.id /\ q.st = "refreshing"]_vars

\* the startup check over tB sent its GET /users/me, which failed without
\* an HTTP answer, and the session is torn down
C33_Witness ==
  /\ TornDown
  /\ user = NoUser
  /\ refreshTimerRef.tok = "tB"
  /\ hist.sent = 1
  /\ ~hist.meHttp
  /\ hist.ops = 0
  /\ reqs = {}
  /\ ~isLoading
  /\ ~dirty

(***************************************************************************)
(* C34.  The two cooperative guards are set exactly while their critical   *)
(* section is suspended: fetchingUserRef is true if and only if a GET      *)
(* /users/me sent by fetchUserProfile has not yet been handed back to its  *)
(* caller, and isCheckingAuth is true if and only if an auth check is      *)
(* suspended at its profile fetch.  So whenever a fetch or a check has     *)
(* finished, by success or by any error, its flag is false.                *)
(***************************************************************************)
\* GET /users/me requests of fetchUserProfile's callers not yet returned
PendingProfileFetches ==
  {r \in reqs : r.kind = "me" /\ r.owner.t \in {"chk", "auth"}}

C34_GuardsClearedOnEveryExit ==
  /\ fetchingUserRef <=> PendingProfileFetches # {}
  /\ isCheckingAuth <=> chk # "idle"

\* the startup check's fetch got an HTTP error, both flags are false, and a
\* later check was performed
C34_Witness ==
  /\ hist.meHttp
  /\ hist.sent = 1
  /\ hist.ops = 0
  /\ refreshTimerRef.tok = "tB"
  /\ user = NoUser
  /\ ~fetchingUserRef
  /\ ~isCheckingAuth
  /\ lastAuthCheckRef >= StartTime + DEBOUNCE_TIME
  /\ ~dirty

(***************************************************************************)
(* C35.  Every request put on the wire by a step, a resubmission included, *)
(* carries the token the Token Store holds, as read from the durable       *)
(* surfaces or from the in-memory copy, before or after that step; when    *)
(* all of these are empty it carries none.                                 *)
(***************************************************************************)
\* request q is put on the wire by this step
PutOnWire(q) ==
  /\ q \in reqs'
  /\ q.st = "flight"
  /\ ~\E r \in reqs : r.id = q.id /\ r.st = "flight"

\* what the Token Store holds around this step
HeldAroundStep ==
  {getStoredValue(cookie, ls), token, getStoredValue(cookie', ls'), token'}

C35_RequestsCarryCurrentToken ==
  [][\A q \in reqs' : PutOnWire(q) => q.hdr \in HeldAroundStep]_vars

(***************************************************************************)
(* C36.  An auth check that waits for its profile ends: the requests it    *)
(* waits for do not reproduce themselves.  Never does the check's GET      *)
(* /users/me wait for a refresh that was answered 401 and itself waits     *)
(* for a second refresh, posted by the same interceptor closure with the   *)
(* same credential: a backend that rejects that credential answers 401     *)
(* again, handling the answer posts the next refresh, and the check never  *)
(* returns.                                                                *)
(***************************************************************************)
\* request q is the refresh the response interceptor of p awaits
WaitsFor(p, q) ==
  /\ p.st = "refreshing"
  /\ q.kind = "refresh"
  /\ q.owner = Owner("ic", p.id)

\* q repeats the rejected refresh r: same credential, same closure
Repeats(r, q) ==
  /\ r.kind = "refresh"
  /\ q.st = "flight"
  /\ q.hdr = r.hdr
  /\ q.ictok = r.ictok
  /\ q.ictok # None
  /\ ~q.retry

RefreshLoop ==
  \E m \in reqs : \E r \in reqs : \E q \in reqs :
    /\ m.kind = "me"
    /\ m.owner.t = "chk"
    /\ WaitsFor(m, r)
    /\ WaitsFor(r, q)
    /\ Repeats(r, q)

C36_CheckEnds == ~(chk = "fetch" /\ isCheckingAuth /\ isLoading /\ RefreshLoop)

(***************************************************************************)
(* C37.  A login that obtained a token, and during which no GET /users/me  *)
(* failed, returns full success, and the profile held when it returns is   *)
(* the one the backend serves for the new token.                           *)
(***************************************************************************)
C37_LoginHoldsBackendProfile ==
  [][(LoginReturns /\ hist'.newTok # None /\ ~hist'.meFailed)
       => /\ hist'.result = "full"
          /\ user' = Profile(Sub(hist'.newTok))]_vars

(***************************************************************************)
(* A restored session whose pages load documents through the api instance. *)
(***************************************************************************)
DocumentsNext ==
  \/ Render
  \/ RespondOk
  \/ RespondError
  \/ TimerFire
  \/ ServiceCall
  \/ DocumentCall
  \/ ServiceRetry
  \/ Tick

DocumentsSpec == Init /\ [][DocumentsNext]_vars

(***************************************************************************)
(* C38.  A request of the api instance is attempted at most 1 +            *)
(* MAX_RETRIES = 3 times, a document download at most 4 times; a network   *)
(* or timeout failure of the last allowed attempt settles the request with *)
(* an error; and an answer that carries an HTTP status settles it at once, *)
(* whatever the attempt.                                                   *)
(***************************************************************************)
\* how often request r of the api instance has been put on the wire
Attempts(r) == 1 + r.replays + (IF r.retry THEN 1 ELSE 0)

AttemptBound(r) ==
  IF documentDownload(r) THEN MAX_RETRIES + 2 ELSE MAX_RETRIES + 1

\* request r is settled with an error in state record s
SettledWithError(s, r) ==
  /\ ~\E q \in s.reqs : q.id = r.id
  /\ s.hist.svcRes \in {"error", "status401"}

C38_BoundedServiceRetry ==
  \A r \in reqs :
    r.owner.t = "svc" =>
      /\ Attempts(r) <= AttemptBound(r)
      /\ (r.st = "flight" /\ Attempts(r) = AttemptBound(r))
           => SettledWithError(onRejected(St, r, ErrNet), r)
      /\ r.st = "flight"
           => \A st \in HttpErrorStatuses :
                SettledWithError(onRejected(St, r, ErrHttp(st)), r)

\* a document download on its fourth attempt, after three network failures
C38_Witness ==
  \E r \in reqs :
    /\ r.owner.t = "svc"
    /\ documentDownload(r)
    /\ r.st = "flight"
    /\ r.replays = MAX_RETRIES
    /\ r.retry
    /\ now >= StartTime + retryDelay(0) + retryDelay(1)

(***************************************************************************)
(* Two tabs of the application over the same cookie jar and localStorage:  *)
(* this tab restores its session and the other tab removes or replaces the *)
(* token.  React commits every pending render and every request is         *)
(* answered or fails.                                                      *)
(***************************************************************************)
TabsNext ==
  \/ Render
  \/ RespondOk
  \/ RespondError
  \/ TimerFire
  \/ OtherTabRemoves
  \/ OtherTabReplaces
  \/ Tick

TabsSpec ==
  /\ Init
  /\ [][TabsNext]_vars
  /\ WF_vars(Render)
  /\ WF_vars(RespondOk \/ RespondError)

(***************************************************************************)
(* C39.  A change of the stored token by another tab is followed by this   *)
(* tab's in-memory token in the same step, and a tab that holds a profile  *)
(* over an empty Token Store eventually drops the profile (or the store    *)
(* is filled again).                                                       *)
(***************************************************************************)
\* the step is a change made by the other tab
OtherTabChange == hist'.ops = hist.ops + 1

AuthenticatedOverEmptyStore ==
  /\ StoreEmpty
  /\ token = None
  /\ user # NoUser

C39_OtherTabRemovalLogsOut ==
  /\ [][OtherTabChange => token' = getStoredValue(cookie', ls')]_vars
  /\ AuthenticatedOverEmptyStore ~> (user = NoUser \/ ~StoreEmpty)

====
